---- MODULE Spec2Model ----
(***************************************************************************)
(* FlowDistribution of tfsnippet: a base Distribution pushed through an    *)
(* invertible Flow, with the log-density bookkeeping of its sample and     *)
(* log_prob paths, as exercised by tests/distributions/test_flow.py; the   *)
(* Normal constructor of distributions/univariate.py; the residual blocks  *)
(* of examples/nn/convolutional.py by the shapes they produce; and the     *)
(* data preparation of examples/auto_encoders/gm_vae_plot.py.              *)
(*                                                                         *)
(* Tensors are records [shape, data] with row-major flat data.  Values are *)
(* integers; log-densities and log-determinants are held on an integer     *)
(* grid (ILog2 is the floor of the base-2 logarithm), which keeps every    *)
(* sum, negation, reduction and broadcast of the program exact.            *)
(***************************************************************************)
EXTENDS Integers, Sequences, FiniteSets, TLC

\* ------------------------------------------------------------------ bounds

\* largest n_samples argument of a sample call
MaxSamples == 2

\* ------------------------------------------------------- scalar arithmetic

Abs(v) == IF v < 0 THEN -v ELSE v

Sign(v) == IF v < 0 THEN -1 ELSE IF v > 0 THEN 1 ELSE 0

Max2(u, v) == IF u >= v THEN u ELSE v

RECURSIVE ILog2(_)
ILog2(v) == IF v <= 1 THEN 0 ELSE 1 + ILog2(v \div 2)

ISqrt(v) == CHOOSE k \in 0..v : k * k <= v /\ (k + 1) * (k + 1) > v

\* ----------------------------------------------------------------- tensors

RECURSIVE Prod(_)
Prod(s) == IF Len(s) = 0 THEN 1 ELSE Head(s) * Prod(Tail(s))

RECURSIVE SumSeq(_)
SumSeq(s) == IF Len(s) = 0 THEN 0 ELSE Head(s) + SumSeq(Tail(s))

Front(s) == SubSeq(s, 1, Len(s) - 1)

Tensor(shape, data) == [shape |-> shape, data |-> data]

Rank(t) == Len(t.shape)

\* the marker returned in place of a tensor when shapes do not fit
ShapeError == [shape |-> <<>>, data |-> <<>>]

IsError(t) == Len(t.data) = 0

\* tf.reduce_sum(t, axis=-1)
ReduceSumLast(t) ==
    LET d == t.shape[Len(t.shape)]
        s == Front(t.shape)
    IN  Tensor(s, [i \in 1..Prod(s) |->
                     SumSeq(SubSeq(t.data, (i - 1) * d + 1, i * d))])

\* the sum over the trailing k dimensions; an error when t has fewer
RECURSIVE ReduceTrailing(_, _)
ReduceTrailing(t, k) ==
    IF IsError(t) \/ k > Rank(t) THEN ShapeError
    ELSE IF k = 0 THEN t
    ELSE ReduceTrailing(ReduceSumLast(t), k - 1)

\* shape s padded on the left with 1s to rank r
RECURSIVE PadShape(_, _)
PadShape(s, r) == IF Len(s) >= r THEN s ELSE PadShape(<<1>> \o s, r)

BroadcastOk(sa, sb) ==
    LET r == Max2(Len(sa), Len(sb))
        pa == PadShape(sa, r)
        pb == PadShape(sb, r)
    IN  \A i \in 1..r : pa[i] = pb[i] \/ pa[i] = 1 \/ pb[i] = 1

BroadcastShape(sa, sb) ==
    LET r == Max2(Len(sa), Len(sb))
        pa == PadShape(sa, r)
        pb == PadShape(sb, r)
    IN  [i \in 1..r |-> Max2(pa[i], pb[i])]

\* the product of the dimensions after position i
Stride(s, i) == Prod(SubSeq(s, i + 1, Len(s)))

\* the 1-based flat position, in an operand of shape s, of the element that
\* broadcasts to the 1-based flat position k of a result of shape rs
OperandIndex(s, rs, k) ==
    LET r == Len(rs)
        p == PadShape(s, r)
        term(i) == IF p[i] = 1 THEN 0
                   ELSE (((k - 1) \div Stride(rs, i)) % rs[i]) * Stride(p, i)
    IN  1 + SumSeq([i \in 1..r |-> term(i)])

\* a + b and a - b with the framework's broadcasting
BroadcastAdd(a, b) ==
    IF IsError(a) \/ IsError(b) \/ ~BroadcastOk(a.shape, b.shape)
    THEN ShapeError
    ELSE LET rs == BroadcastShape(a.shape, b.shape)
         IN  Tensor(rs, [k \in 1..Prod(rs) |->
                           a.data[OperandIndex(a.shape, rs, k)]
                           + b.data[OperandIndex(b.shape, rs, k)]])

Negate(t) == Tensor(t.shape, [k \in 1..Len(t.data) |-> -t.data[k]])

BroadcastSub(a, b) == IF IsError(b) THEN ShapeError ELSE BroadcastAdd(a, Negate(b))

MapTensor(F(_), t) == Tensor(t.shape, [k \in 1..Len(t.data) |-> F(t.data[k])])

\* --------------------------------------------------- base distributions

\* mean = [0., 1., 2.] of the tests' Normal, batch shape (3,)
TestMean == Tensor(<<3>>, <<0, 1, 2>>)

\* mean = 0. of test_errors' Normal, batch shape ()
ScalarMean == Tensor(<<>>, <<0>>)

\* a continuous float distribution of value_ndims 0, by what
\* FlowDistribution reads of it: is_continuous, dtype.is_floating,
\* value_ndims, is_reparameterized
ContinuousFloat(mean, is_reparameterized) ==
    [is_continuous |-> TRUE, is_float |-> TRUE, value_ndims |-> 0,
     is_reparameterized |-> is_reparameterized, mean |-> mean]

\* the base distributions the tests hand to FlowDistribution:
\*   normal         Normal(mean=[0., 1., 2.], std=1.)
\*   normal_scalar  Normal(mean=0., std=1.)
\*   normal_norep   the distribution test_property asks for with
\*                  is_reparameterized=False
\*   categorical    Categorical(logits=[0., 1., 2.])
\*   mock_int32     Mock(normal, dtype=tf.int32)
\*   mock_vnd2      Mock(normal, value_ndims=2)
\* and a Mock that carries both of the Mocks' attributes:
\*   mock_int32_vnd2  Mock(normal, dtype=tf.int32, value_ndims=2)
Distribution(name) ==
    CASE name = "normal"        -> ContinuousFloat(TestMean, TRUE)
      [] name = "normal_scalar" -> ContinuousFloat(ScalarMean, TRUE)
      [] name = "normal_norep"  -> ContinuousFloat(TestMean, FALSE)
      [] name = "categorical"   ->
             [is_continuous |-> FALSE, is_float |-> FALSE, value_ndims |-> 0,
              is_reparameterized |-> FALSE, mean |-> ScalarMean]
      [] name = "mock_int32"    ->
             [ContinuousFloat(ScalarMean, TRUE) EXCEPT !.is_float = FALSE]
      [] name = "mock_vnd2"     ->
             [ContinuousFloat(ScalarMean, TRUE) EXCEPT !.value_ndims = 2]
      [] name = "mock_int32_vnd2" ->
             [ContinuousFloat(ScalarMean, TRUE) EXCEPT
                 !.is_float = FALSE, !.value_ndims = 2]

DistributionNames ==
    {"normal", "normal_scalar", "normal_norep", "categorical", "mock_int32",
     "mock_vnd2", "mock_int32_vnd2"}

\* the noise of one draw, one entry per element of the batch shape; no
\* draw is exactly 0, where the quadratic flow has no log-determinant
RowNoises(d) ==
    IF Len(d.mean.data) = 3 THEN {<<1, -3, 1>>, <<-3, 2, -1>>}
    ELSE {<<1>>, <<-3>>}

RECURSIVE Concat(_, _)
Concat(rows, i) == IF i > Len(rows) THEN <<>> ELSE rows[i] \o Concat(rows, i + 1)

\* the noise tensors of a draw of n samples (n = 0 stands for n_samples=None)
Noises(d, n) ==
    IF n = 0 THEN {Tensor(d.mean.shape, r) : r \in RowNoises(d)}
    ELSE {Tensor(<<n>> \o d.mean.shape, Concat(rows, 1)) :
            rows \in [1..n -> RowNoises(d)]}

\* is_reparameterized arguments: "none" stands for None
RepArgs == {"none", "true", "false"}

\* Distribution.sample refuses is_reparameterized=True on a distribution
\* that is not reparameterized
BaseSampleRefused(d, rep) == rep = "true" /\ ~d.is_reparameterized

\* the is_reparameterized flag of the base sample
BaseSampleFlag(d, rep) ==
    IF rep = "none" THEN d.is_reparameterized ELSE rep = "true"

\* the value of the base sample: mean + noise
BaseSampleValue(d, noise) == BroadcastAdd(d.mean, noise)

\* the log-density of a unit-variance Normal at distance v from its mean,
\* on the integer grid: -v^2 less the normalising constant
NormalLogProbElem(v) == -(v * v) - 2

\* Distribution.log_prob(x, group_ndims)
BaseLogProb(d, x, group_ndims) ==
    LET c == BroadcastSub(x, d.mean)
    IN  IF IsError(c) THEN ShapeError
        ELSE ReduceTrailing(MapTensor(NormalLogProbElem, c),
                            d.value_ndims + group_ndims)

\* -------------------------------------------------------------------- flows

\* QuadraticFlow(2., 5.) and QuadraticFlow(2., 5., value_ndims=1) of the
\* tests, ReshapeFlow(1, [-1, 1]) of test_property, and the integer 123
\* that test_errors passes as a flow
QuadraticA == 2

QuadraticB == 5

Flow(name) ==
    CASE name = "quadratic0" ->
             [is_flow |-> TRUE, x_value_ndims |-> 0, y_value_ndims |-> 0]
      [] name = "quadratic1" ->
             [is_flow |-> TRUE, x_value_ndims |-> 1, y_value_ndims |-> 1]
      [] name = "reshape" ->
             [is_flow |-> TRUE, x_value_ndims |-> 1, y_value_ndims |-> 2]
      [] name = "int123" ->
             [is_flow |-> FALSE, x_value_ndims |-> 0, y_value_ndims |-> 0]

FlowNames == {"quadratic0", "quadratic1", "reshape", "int123"}

RealFlows == {f \in FlowNames : Flow(f).is_flow}

\* the flows of the tests that go on to sample or to evaluate densities:
\* all but the reshape flow, which test_property constructs over and asks
\* for its value_ndims only
SampledFlowNames == FlowNames \ {"reshape"}

\* y = a * sign(x) * x^2 + b
TransformElem(v) == QuadraticA * Sign(v) * v * v + QuadraticB

\* log |dy/dx| = log(2 a |x|)
LogDetElem(v) == ILog2(2 * QuadraticA * Abs(v))

\* x = sign(y - b) * sqrt(|y - b| / a)
InverseElem(w) == Sign(w - QuadraticB) * ISqrt(Abs(w - QuadraticB) \div QuadraticA)

\* log |dx/dy| = -log(2 sqrt(a |y - b|))
InverseLogDetElem(w) == -ILog2(2 * ISqrt(QuadraticA * Abs(w - QuadraticB)))

\* Flow.transform(x) -> (y, log_det); log_det has x's shape without its
\* trailing x_value_ndims dimensions
FlowTransform(f, x) ==
    IF IsError(x) \/ Rank(x) < f.x_value_ndims
    THEN [y |-> ShapeError, log_det |-> ShapeError]
    ELSE [y |-> MapTensor(TransformElem, x),
          log_det |-> ReduceTrailing(MapTensor(LogDetElem, x), f.x_value_ndims)]

\* Flow.inverse_transform(y) -> (x, log_det)
FlowInverseTransform(f, y) ==
    IF IsError(y) \/ Rank(y) < f.y_value_ndims
    THEN [x |-> ShapeError, log_det |-> ShapeError]
    ELSE [x |-> MapTensor(InverseElem, y),
          log_det |-> ReduceTrailing(MapTensor(InverseLogDetElem, y),
                                     f.y_value_ndims)]

\* -------------------------------------------------------- FlowDistribution

VARIABLES
    distrib,     \* the FlowDistribution in hand: its distribution and flow
    built,       \* per flow: whether it has been built
    builtFrom,   \* per flow: what its build was run against
    nBuilds,     \* per flow: how many times its build has run (saturating)
    last,        \* the last call: its arguments and what it gave
    net,         \* examples/nn: the residual block built last
    data         \* examples/auto_encoders: the data set main() prepares

vars == <<distrib, built, builtFrom, nBuilds, last, net, data>>

\* what the example programs hold; the distribution calls leave it alone
examples == <<net, data>>

\* no block has been built
NoNet == [fn |-> "none"]

\* main() has not started
NoData == [pc |-> "start"]

NoDistrib == [distribution |-> "none", flow |-> "none"]

\* nBuilds saturates here
BuildCap == 2

\* largest group_ndims argument of a call
MaxGroupNdims == 2

NSamplesArgs == 0..MaxSamples

GroupNdimsArgs == 0..MaxGroupNdims

\* a call that has not computed anything yet
Call(op, dn, fn) ==
    [op |-> op, outcome |-> "ok", why |-> "", dist |-> dn, flow |-> fn,
     n_samples |-> 0, rep |-> "none", compute_density |-> TRUE,
     group_ndims |-> 0, x |-> ShapeError, y |-> ShapeError,
     log_det |-> ShapeError, log_prob |-> ShapeError,
     is_reparameterized |-> FALSE, grad |-> FALSE,
     base_sample_group_ndims |-> -1, base_log_prob_group_ndims |-> -1,
     kwargs |-> {}, returned |-> FALSE]

\* no call result is in hand
Idle == Call("idle", "none", "none")

Failed(call, outcome, why) == [call EXCEPT !.outcome = outcome, !.why = why]

\* the dtype check run ahead of the continuity check
ValidateDtypeFirst(d, f) ==
    IF ~f.is_flow THEN [outcome |-> "TypeError", why |-> "not_flow"]
    ELSE IF ~d.is_float THEN [outcome |-> "ValueError", why |-> "not_float"]
    ELSE IF ~d.is_continuous
    THEN [outcome |-> "ValueError", why |-> "not_continuous"]
    ELSE IF d.value_ndims > f.x_value_ndims
    THEN [outcome |-> "ValueError", why |-> "value_ndims"]
    ELSE [outcome |-> "ok", why |-> ""]

\* FlowDistribution.__init__: the construction invariants, first failure wins
Validate(d, f) ==
    IF ~f.is_flow THEN [outcome |-> "TypeError", why |-> "not_flow"]
    ELSE IF ~d.is_continuous
    THEN [outcome |-> "ValueError", why |-> "not_continuous"]
    ELSE IF ~d.is_float THEN [outcome |-> "ValueError", why |-> "not_float"]
    ELSE IF d.value_ndims > f.x_value_ndims
    THEN [outcome |-> "ValueError", why |-> "value_ndims"]
    ELSE [outcome |-> "ok", why |-> ""]

\* FlowDistribution.is_reparameterized
IsReparameterized(fd) == Distribution(fd.distribution).is_reparameterized

\* the caller's group_ndims handed on to the base distribution as well
BaseGroupNdimsOfCaller(group_ndims) == group_ndims

\* the group_ndims FlowDistribution passes to the base distribution
BaseGroupNdims(group_ndims) == 0

\* the effective reparameterization flag of a sample call
EffectiveFlag(rep, x_is_reparameterized) ==
    IF rep # "none" THEN rep = "true" ELSE x_is_reparameterized

\* whether the base sample's value depends on the distribution's parameters;
\* what the base does to the graph under is_reparameterized=False is its own
\* business (base_detaches)
BaseSampleGrad(d, rep, base_detaches) ==
    d.is_reparameterized /\ ~(rep = "false" /\ base_detaches)

\* stop-gradient on x when the effective flag is False
DetachUnlessFlag(flag, x_grad) == IF flag THEN x_grad ELSE FALSE

\* sample: log_py = log_px + log_det, then the caller's group_ndims
SampleLogPy(log_px, log_det, group_ndims) ==
    ReduceTrailing(BroadcastAdd(log_px, log_det), group_ndims)

\* log_prob: reduce_sum(log_px + log_det) over the trailing group_ndims
LogProbLogPy(log_px, log_det, group_ndims) ==
    ReduceTrailing(BroadcastAdd(log_px, log_det), group_ndims)

\* FlowDistribution.sample, as far as its result goes
SampleCall(dn, fn, n, rep, cd, g, noise, base_detaches) ==
    LET d == Distribution(dn)
        f == Flow(fn)
        call == [Call("sample", dn, fn) EXCEPT
                    !.n_samples = n, !.rep = rep, !.compute_density = cd,
                    !.group_ndims = g]
    IN  IF ~cd THEN Failed(call, "RuntimeError", "compute_density")
        ELSE IF BaseSampleRefused(d, rep)
        THEN Failed([call EXCEPT !.base_sample_group_ndims = BaseGroupNdims(g)],
                    "RuntimeError", "not_reparameterized")
        ELSE
        LET x == BaseSampleValue(d, noise)
            flag == EffectiveFlag(rep, BaseSampleFlag(d, rep))
            x_grad == DetachUnlessFlag(flag, BaseSampleGrad(d, rep, base_detaches))
            t == FlowTransform(f, x)
            log_px == BaseLogProb(d, x, BaseGroupNdims(g))
            log_py == SampleLogPy(log_px, t.log_det, g)
            drawn == [call EXCEPT !.x = x,
                         !.base_sample_group_ndims = BaseGroupNdims(g)]
        IN  IF IsError(t.y) THEN Failed(drawn, "ValueError", "flow_rank")
            ELSE IF IsError(log_py)
            THEN Failed([drawn EXCEPT
                            !.log_det = t.log_det,
                            !.base_log_prob_group_ndims = BaseGroupNdims(g)],
                        "ValueError", "shape")
            ELSE [drawn EXCEPT
                     !.y = t.y, !.log_det = t.log_det, !.log_prob = log_py,
                     !.is_reparameterized = flag, !.grad = x_grad,
                     !.base_log_prob_group_ndims = BaseGroupNdims(g),
                     !.returned = TRUE]

\* FlowDistribution.log_prob, as far as its result goes
LogProbCall(dn, fn, y, g) ==
    LET d == Distribution(dn)
        f == Flow(fn)
        call == [Call("log_prob", dn, fn) EXCEPT !.group_ndims = g, !.y = y]
        t == FlowInverseTransform(f, y)
        log_px == BaseLogProb(d, t.x, BaseGroupNdims(g))
        log_py == LogProbLogPy(log_px, t.log_det, g)
    IN  IF IsError(t.x) THEN Failed(call, "ValueError", "flow_rank")
        ELSE IF IsError(log_py)
        THEN Failed([call EXCEPT
                        !.x = t.x, !.log_det = t.log_det,
                        !.base_log_prob_group_ndims = BaseGroupNdims(g)],
                    "ValueError", "shape")
        ELSE [call EXCEPT
                 !.x = t.x, !.log_det = t.log_det, !.log_prob = log_py,
                 !.base_log_prob_group_ndims = BaseGroupNdims(g),
                 !.returned = TRUE]

\* log_prob handing the build the x it recovered instead of the given y
BuildInputRecovered(op) ==
    CASE op = "sample" -> "x"
      [] op = "log_prob" -> "x"
      [] OTHER -> "external"

\* the tensor a call hands to the flow's build: sample has drawn x,
\* log_prob has been given y, a direct flow.build has the caller's input
BuildInput(op) ==
    CASE op = "sample" -> "x"
      [] op = "log_prob" -> "y"
      [] OTHER -> "external"

\* a build that runs on every request
BuildRunsAlways(fn) == TRUE

\* whether a build request on flow fn runs the build
BuildRuns(fn) == ~built[fn]

\* the flow's build step: runs once, later requests are no-ops
EnsureBuilt(fn, against) ==
    IF BuildRuns(fn)
    THEN /\ built' = [built EXCEPT ![fn] = TRUE]
         /\ builtFrom' = [builtFrom EXCEPT ![fn] = against]
         /\ nBuilds' = [nBuilds EXCEPT
                           ![fn] = IF @ < BuildCap THEN @ + 1 ELSE @]
    ELSE UNCHANGED <<built, builtFrom, nBuilds>>

\* ------------------------------------------------------------------ actions

Init ==
    /\ distrib = NoDistrib
    /\ built = [fn \in RealFlows |-> FALSE]
    /\ builtFrom = [fn \in RealFlows |-> "none"]
    /\ nBuilds = [fn \in RealFlows |-> 0]
    /\ last = Idle
    /\ net = NoNet
    /\ data = NoData

\* FlowDistribution.distribution and FlowDistribution.flow
DistributionOf(fd) == fd.distribution

FlowOf(fd) == fd.flow

\* a constructor that builds the flow it is given
ConstructOverBuildsFlow(flows) ==
    \E dn \in DistributionNames, fn \in flows :
        LET v == Validate(Distribution(dn), Flow(fn))
        IN  /\ last = Idle
            /\ last' = [Call("construct", dn, fn) EXCEPT
                           !.outcome = v.outcome, !.why = v.why,
                           !.returned = (v.outcome = "ok")]
            /\ distrib' = IF v.outcome = "ok"
                          THEN [distribution |-> dn, flow |-> fn]
                          ELSE distrib
            /\ IF v.outcome = "ok"
               THEN EnsureBuilt(fn, BuildInput("build"))
               ELSE UNCHANGED <<built, builtFrom, nBuilds>>
            /\ UNCHANGED examples

\* distrib = FlowDistribution(distribution, flow), the flow one of flows
ConstructOver(flows) ==
    \E dn \in DistributionNames, fn \in flows :
        LET v == Validate(Distribution(dn), Flow(fn))
        IN  /\ last = Idle
            /\ last' = [Call("construct", dn, fn) EXCEPT
                           !.outcome = v.outcome, !.why = v.why,
                           !.returned = (v.outcome = "ok")]
            /\ distrib' = IF v.outcome = "ok"
                          THEN [distribution |-> dn, flow |-> fn]
                          ELSE distrib
            /\ UNCHANGED <<built, builtFrom, nBuilds, examples>>

\* flow.build(input), called on one of flows directly
FlowBuildOver(flows) ==
    \E fn \in RealFlows \cap flows :
        /\ last = Idle
        /\ EnsureBuilt(fn, BuildInput("build"))
        /\ last' = Call("build", "none", fn)
        /\ UNCHANGED <<distrib, examples>>

\* distrib = FlowDistribution(distribution, flow)
Construct == ConstructOver(SampledFlowNames)

\* flow.build(input)
FlowBuild == FlowBuildOver(SampledFlowNames)

\* test_property: distrib = FlowDistribution(distribution, flow) over any
\* of the flows, the reshape flow among them
ConstructProperty == ConstructOver(FlowNames)

FlowBuildProperty == FlowBuildOver(FlowNames)

\* y = distrib.sample(n_samples, is_reparameterized, compute_density,
\*                    group_ndims)
Sample ==
    /\ last = Idle
    /\ distrib # NoDistrib
    /\ \E n \in NSamplesArgs, rep \in RepArgs, cd \in BOOLEAN,
          g \in GroupNdimsArgs :
        LET d == Distribution(distrib.distribution) IN
        \E noise \in IF cd THEN Noises(d, n)
                     ELSE {CHOOSE z \in Noises(d, n) : TRUE},
           base_detaches \in IF cd /\ rep = "false" THEN BOOLEAN ELSE {TRUE} :
            /\ last' = SampleCall(distrib.distribution, distrib.flow, n, rep,
                                  cd, g, noise, base_detaches)
            /\ IF cd /\ ~BaseSampleRefused(d, rep)
               THEN EnsureBuilt(distrib.flow, BuildInput("sample"))
               ELSE UNCHANGED <<built, builtFrom, nBuilds>>
            /\ UNCHANGED <<distrib, examples>>

\* the flow's images of the values the base distribution can draw
SampleImages(d, n) ==
    {MapTensor(TransformElem, BaseSampleValue(d, noise)) : noise \in Noises(d, n)}

\* those of them whose n draws share one noise
UniformImages(d, n) ==
    {MapTensor(TransformElem, BaseSampleValue(d, noise)) :
        noise \in {z \in Noises(d, n) :
                     \E r \in RowNoises(d) : z.data = Concat([i \in 1..Max2(n, 1) |-> r], 1)}}

\* the tensors y a caller hands to log_prob: such images, alone or stacked
\* in pairs (a leading dimension of 2, as in y of shape [2, 5, 3])
GivenValues(d, n, stacked) ==
    IF stacked
    THEN {Tensor(<<2>> \o u.shape, u.data \o v.data) :
            u \in SampleImages(d, n), v \in UniformImages(d, n)}
    ELSE SampleImages(d, n)

\* distrib.log_prob(y, group_ndims)
LogProb ==
    /\ last = Idle
    /\ distrib # NoDistrib
    /\ \E n \in NSamplesArgs, stacked \in BOOLEAN, g \in GroupNdimsArgs :
        \E y \in GivenValues(Distribution(distrib.distribution), n, stacked) :
            /\ EnsureBuilt(distrib.flow, BuildInput("log_prob"))
            /\ last' = LogProbCall(distrib.distribution, distrib.flow, y, g)
            /\ UNCHANGED <<distrib, examples>>

\* the parameters Normal.__init__ declares besides self
NormalParams == {"mean", "std", "logstd", "check_numerics"}

\* the keyword sets Normal is called with: by test_errors and the p-nets,
\* by test_property and gmvae_q_net, and with logstd in place of std
NormalCallKeywords ==
    {{"mean", "std"},
     {"mean", "std", "is_reparameterized"},
     {"mean", "logstd"}}

\* Normal(...) called with these keywords: one the signature does not declare is
\* a TypeError before the body runs; otherwise the arguments go on to
\* zd.Normal
NormalInit(kwargs) ==
    IF ~(kwargs \subseteq NormalParams)
    THEN [outcome |-> "TypeError", why |-> "unexpected_keyword"]
    ELSE IF "mean" \notin kwargs
    THEN [outcome |-> "TypeError", why |-> "missing_mean"]
    ELSE [outcome |-> "ok", why |-> ""]

\* normal = Normal(...)
NormalConstruct ==
    \E kwargs \in NormalCallKeywords :
        LET v == NormalInit(kwargs)
        IN  /\ last = Idle
            /\ last' = [Call("normal_init", "none", "none") EXCEPT
                           !.outcome = v.outcome, !.why = v.why,
                           !.kwargs = kwargs,
                           !.returned = (v.outcome = "ok")]
            /\ UNCHANGED <<distrib, built, builtFrom, nBuilds, examples>>

\* the caller is done with the result of the last call
Discard ==
    /\ last # Idle
    /\ last' = Idle
    /\ UNCHANGED <<distrib, built, builtFrom, nBuilds, examples>>

Next ==
    \/ NormalConstruct
    \/ Construct
    \/ FlowBuild
    \/ Sample
    \/ LogProb
    \/ Discard

Spec == Init /\ [][Next]_vars

\* test_property: distributions are constructed and asked for their
\* properties, and nothing is drawn from them
NextProperty ==
    \/ NormalConstruct
    \/ ConstructProperty
    \/ FlowBuildProperty
    \/ Discard

SpecProperty == Init /\ [][NextProperty]_vars

\* ------------------------------------------------- what the tests expect

\* test_errors with the Categorical case expecting the dtype message
TestErrorsCasesDtypeFirst ==
    {[dist |-> "normal_scalar", flow |-> "int123",
      outcome |-> "TypeError", why |-> "not_flow"],
     [dist |-> "categorical", flow |-> "quadratic1",
      outcome |-> "ValueError", why |-> "not_float"],
     [dist |-> "mock_int32", flow |-> "quadratic1",
      outcome |-> "ValueError", why |-> "not_float"],
     [dist |-> "mock_vnd2", flow |-> "quadratic1",
      outcome |-> "ValueError", why |-> "value_ndims"],
     [dist |-> "normal_scalar", flow |-> "quadratic1",
      outcome |-> "ok", why |-> ""]}

\* test_errors: each constructor call with what it raises
TestErrorsCases ==
    {[dist |-> "normal_scalar", flow |-> "int123",
      outcome |-> "TypeError", why |-> "not_flow"],
     [dist |-> "categorical", flow |-> "quadratic1",
      outcome |-> "ValueError", why |-> "not_continuous"],
     [dist |-> "mock_int32", flow |-> "quadratic1",
      outcome |-> "ValueError", why |-> "not_float"],
     [dist |-> "mock_vnd2", flow |-> "quadratic1",
      outcome |-> "ValueError", why |-> "value_ndims"],
     [dist |-> "normal_scalar", flow |-> "quadratic1",
      outcome |-> "ok", why |-> ""]}

\* test_errors expecting sample(compute_density=False) to raise ValueError
TestSampleErrorAsValueError ==
    [dist |-> "normal_scalar", flow |-> "quadratic1",
     outcome |-> "ValueError", why |-> "compute_density"]

\* test_errors: distrib.sample(compute_density=False) on
\* FlowDistribution(normal, flow)
TestSampleError ==
    [dist |-> "normal_scalar", flow |-> "quadratic1",
     outcome |-> "RuntimeError", why |-> "compute_density"]

\* test_sample: x, log_det = flow.inverse_transform(y);
\* log_py = normal.log_prob(x) + log_det
TestSampleLogPy(dn, fn, y) ==
    LET t == FlowInverseTransform(Flow(fn), y)
    IN  BroadcastAdd(BaseLogProb(Distribution(dn), t.x, 0), t.log_det)

\* test_log_prob with the inverse log_det subtracted
TestLogProbLogPyNegated(dn, fn, y) ==
    LET t == FlowInverseTransform(Flow(fn), y)
    IN  BroadcastSub(BaseLogProb(Distribution(dn), t.x, 0), t.log_det)

\* test_log_prob: x, log_det = flow.inverse_transform(y);
\* log_py = normal.log_prob(x) + log_det
TestLogProbLogPy(dn, fn, y) ==
    LET t == FlowInverseTransform(Flow(fn), y)
    IN  BroadcastAdd(BaseLogProb(Distribution(dn), t.x, 0), t.log_det)

\* test_sample_value_and_group_ndims, value_ndims = 1, group_ndims = 0:
\* log_py = log_det + tf.reduce_sum(normal.log_prob(x), axis=-1)
TestSampleValueNdimsLogPy(dn, fn, y) ==
    LET t == FlowInverseTransform(Flow(fn), y)
        log_px == BaseLogProb(Distribution(dn), t.x, 0)
    IN  IF IsError(log_px) \/ Rank(log_px) = 0 THEN ShapeError
        ELSE BroadcastAdd(t.log_det, ReduceSumLast(log_px))

\* test_log_prob_value_and_group_ndims, value_ndims = 1, group_ndims = 0:
\* log_py = normal.log_prob(x, group_ndims=1) + log_det
TestLogProbValueNdimsLogPy(dn, fn, y) ==
    LET t == FlowInverseTransform(Flow(fn), y)
    IN  BroadcastAdd(BaseLogProb(Distribution(dn), t.x, 1), t.log_det)

\* the value_ndims = 0, group_ndims = 1 expectation with the base
\* log-density summed before log_det is added
TestLogProbGroupNdimsLogPySummedFirst(dn, fn, y) ==
    LET t == FlowInverseTransform(Flow(fn), y)
    IN  BroadcastAdd(BaseLogProb(Distribution(dn), t.x, 1), t.log_det)

\* test_log_prob_value_and_group_ndims, value_ndims = 0, group_ndims = 1:
\* log_py = tf.reduce_sum(normal.log_prob(x) + log_det, axis=-1)
TestLogProbGroupNdimsLogPy(dn, fn, y) ==
    LET t == FlowInverseTransform(Flow(fn), y)
        log_py == BroadcastAdd(BaseLogProb(Distribution(dn), t.x, 0), t.log_det)
    IN  IF IsError(log_py) \/ Rank(log_py) = 0 THEN ShapeError
        ELSE ReduceSumLast(log_py)

\* test_sample expecting y.is_reparameterized under is_reparameterized=False
TestSampleFlagCasesKeptTrue ==
    {[dist |-> "normal", rep |-> "none", is_reparameterized |-> TRUE],
     [dist |-> "normal", rep |-> "false", is_reparameterized |-> TRUE]}

\* test_sample and test_property: the is_reparameterized tag of the sample
\* for an is_reparameterized argument, and of the FlowDistribution itself
TestSampleFlagCases ==
    {[dist |-> "normal", rep |-> "none", is_reparameterized |-> TRUE],
     [dist |-> "normal", rep |-> "false", is_reparameterized |-> FALSE]}

TestPropertyFlagCases ==
    {[dist |-> "normal", is_reparameterized |-> TRUE],
     [dist |-> "normal_norep", is_reparameterized |-> FALSE]}

\* test_sample expecting a gradient under is_reparameterized=False
TestSampleGradCasesKeptGrad ==
    {[dist |-> "normal", rep |-> "none", grad |-> TRUE],
     [dist |-> "normal", rep |-> "false", grad |-> TRUE]}

\* test_sample: whether tf.gradients(y * 1., mean)[0] is a gradient (not
\* None) for an is_reparameterized argument
TestSampleGradCases ==
    {[dist |-> "normal", rep |-> "none", grad |-> TRUE],
     [dist |-> "normal", rep |-> "false", grad |-> FALSE]}

\* ------------------------------------------------------------------ claims

ConstructionInvariants(d, f) ==
    /\ f.is_flow
    /\ d.is_continuous
    /\ d.is_float
    /\ d.value_ndims <= f.x_value_ndims

\* C1: FlowDistribution(distribution, flow) succeeds exactly when the four
\* construction invariants hold; it fails with a TypeError when flow is not
\* a Flow, and with a ValueError when the distribution is not continuous,
\* not of a float dtype, or has value_ndims > flow.x_value_ndims; the
\* constructor calls of test_errors raise what the test expects.
C1_ConstructionValidated ==
    last.op = "construct" =>
        LET d == Distribution(last.dist)
            f == Flow(last.flow)
        IN  /\ (last.outcome = "ok") <=> ConstructionInvariants(d, f)
            /\ ~f.is_flow => last.outcome = "TypeError"
            /\ (f.is_flow /\ ~ConstructionInvariants(d, f))
                   => last.outcome = "ValueError"
            /\ last.outcome \in {"ok", "TypeError", "ValueError"}
            /\ last.returned <=> (last.outcome = "ok")
            /\ last.returned
                   => distrib = [distribution |-> last.dist, flow |-> last.flow]
            /\ \A c \in TestErrorsCases :
                   (c.dist = last.dist /\ c.flow = last.flow)
                       => (last.outcome = c.outcome /\ last.why = c.why)

\* a construction refused for value_ndims > x_value_ndims alone
C1_Witness ==
    /\ last.op = "construct"
    /\ last.dist = "mock_vnd2"
    /\ last.flow = "quadratic1"
    /\ last.outcome = "ValueError"

\* C2: sample(compute_density=False) fails with a RuntimeError whatever
\* n_samples, is_reparameterized and group_ndims are, and returns no sample.
C2_ComputeDensityFalseRejected ==
    (last.op = "sample" /\ ~last.compute_density) =>
        /\ last.outcome = "RuntimeError"
        /\ last.why = "compute_density"
        /\ ~last.returned
        /\ IsError(last.y) /\ IsError(last.log_prob)
        /\ (last.dist = TestSampleError.dist /\ last.flow = TestSampleError.flow)
               => (last.outcome = TestSampleError.outcome
                   /\ last.why = TestSampleError.why)

\* compute_density=False met with other arguments a valid call could carry
C2_Witness ==
    /\ last.op = "sample"
    /\ ~last.compute_density
    /\ last.outcome = "RuntimeError"
    /\ last.n_samples = MaxSamples
    /\ last.rep = "false"
    /\ last.group_ndims = 1

\* a sample call that drew from the base distribution and returned y
SampleReturned == last.op = "sample" /\ last.returned

LogProbReturned == last.op = "log_prob" /\ last.returned

\* C3: the log-density cached on the y returned by sample equals the value
\* of the inverse path, base log_prob(x') + log_det' with
\* (x', log_det') = flow.inverse_transform(y), summed over the caller's
\* group_ndims.
C3_SampleDensityIsInversePath ==
    SampleReturned =>
        last.log_prob =
            ReduceTrailing(TestSampleLogPy(last.dist, last.flow, last.y),
                           last.group_ndims)

ValueNdimsCase ==
    /\ last.op \in {"sample", "log_prob"}
    /\ last.group_ndims = 0
    /\ Distribution(last.dist).value_ndims < Flow(last.flow).x_value_ndims
    /\ last.why \notin {"compute_density", "not_reparameterized", "flow_rank"}

\* C6: when distribution.value_ndims < flow.x_value_ndims the base
\* log-density is summed over the trailing (x_value_ndims - value_ndims)
\* dimensions before log_det is added: the log-density cached by sample and
\* the one log_prob(y, group_ndims=0) returns equal
\* log_det + reduce_sum(normal.log_prob(x), axis=-1), which is
\* normal.log_prob(x, group_ndims=1) + log_det.
C6_BaseDensitySummedToLogDetShape ==
    ValueNdimsCase =>
        /\ last.returned
        /\ last.log_prob = TestSampleValueNdimsLogPy(last.dist, last.flow, last.y)
        /\ last.log_prob = TestLogProbValueNdimsLogPy(last.dist, last.flow, last.y)
        /\ last.log_prob.shape = last.log_det.shape

\* C7: grouping commutes with evaluation: log_prob(y, group_ndims=g) is
\* log_prob(y, group_ndims=0) summed over its trailing g dimensions wherever
\* the shape permits, and so is the log-density cached by
\* sample(group_ndims=g) against that of the same draw with group_ndims=0;
\* for a value_ndims=0 flow and g=1 it is the sum test_log_prob_value_and_
\* group_ndims expects.
C7_GroupingCommutes ==
    /\ last.op = "log_prob" =>
           LET zero == LogProbCall(last.dist, last.flow, last.y, 0)
           IN  /\ (zero.returned /\ last.group_ndims <= Rank(zero.log_prob))
                      => /\ last.returned
                         /\ last.log_prob =
                                ReduceTrailing(zero.log_prob, last.group_ndims)
               /\ (last.returned /\ last.group_ndims = 1
                       /\ Flow(last.flow).y_value_ndims = 0)
                      => last.log_prob =
                             TestLogProbGroupNdimsLogPy(last.dist, last.flow,
                                                        last.y)
    /\ (last.op = "sample" /\ ~IsError(last.x)) =>
           LET noise == BroadcastSub(last.x, Distribution(last.dist).mean)
               zero == SampleCall(last.dist, last.flow, last.n_samples,
                                  last.rep, TRUE, 0, noise, TRUE)
           IN  (zero.returned /\ last.group_ndims <= Rank(zero.log_prob))
                   => /\ last.returned
                      /\ last.y = zero.y
                      /\ last.log_prob =
                             ReduceTrailing(zero.log_prob, last.group_ndims)

\* a log_prob call with group_ndims=2 on a y of rank 3 whose rows differ
C7_Witness ==
    /\ LogProbReturned
    /\ last.group_ndims = 2
    /\ Rank(last.y) = 3
    /\ Len(last.log_prob.data) > 1
    /\ \E i, j \in 1..Len(last.log_prob.data) :
           last.log_prob.data[i] # last.log_prob.data[j]

\* C8: the sample carries is_reparameterized equal to the caller's argument
\* when it is not None and to the base sample's flag otherwise;
\* FlowDistribution.is_reparameterized is the base distribution's; no sample
\* is tagged is_reparameterized=True when the base is not reparameterized.
C8_ReparameterizedFlag ==
    /\ SampleReturned =>
           LET d == Distribution(last.dist)
           IN  /\ last.rep = "true" => last.is_reparameterized
               /\ last.rep = "false" => ~last.is_reparameterized
               /\ last.rep = "none"
                      => last.is_reparameterized = d.is_reparameterized
               /\ last.is_reparameterized => d.is_reparameterized
               /\ \A c \in TestSampleFlagCases :
                      (c.dist = last.dist /\ c.rep = last.rep)
                          => last.is_reparameterized = c.is_reparameterized
    /\ distrib # NoDistrib =>
           /\ IsReparameterized(distrib)
                  = Distribution(distrib.distribution).is_reparameterized
           /\ \A c \in TestPropertyFlagCases :
                  c.dist = distrib.distribution
                      => IsReparameterized(distrib) = c.is_reparameterized

\* a sample drawn with is_reparameterized=None from a FlowDistribution over
\* a base that is not reparameterized
C8_Witness ==
    /\ SampleReturned
    /\ last.rep = "none"
    /\ ~Distribution(last.dist).is_reparameterized
    /\ ~last.is_reparameterized

\* C9: when the effective flag of a sample call is False, x is detached
\* before the flow and y has no gradient with respect to the base
\* distribution's parameters; when it is True (the base is then
\* reparameterized) y has one.
C9_GradientFollowsFlag ==
    SampleReturned =>
        /\ ~last.is_reparameterized => ~last.grad
        /\ (last.is_reparameterized /\ Distribution(last.dist).is_reparameterized)
               => last.grad
        /\ \A c \in TestSampleGradCases :
               (c.dist = last.dist /\ c.rep = last.rep) => last.grad = c.grad

\* a sample forced to is_reparameterized=False on a reparameterized base
C9_Witness ==
    /\ SampleReturned
    /\ last.rep = "false"
    /\ Distribution(last.dist).is_reparameterized
    /\ ~last.grad

\* the build bookkeeping agrees with the built flag
BuiltOnce ==
    \A fn \in RealFlows :
        /\ nBuilds[fn] <= 1
        /\ built[fn] <=> nBuilds[fn] = 1
        /\ built[fn] <=> builtFrom[fn] # "none"

\* a built flow stays built, and a build request on it changes nothing
BuiltStaysBuilt ==
    \A fn \in RealFlows :
        built[fn] =>
            /\ built'[fn]
            /\ nBuilds'[fn] = nBuilds[fn]
            /\ builtFrom'[fn] = builtFrom[fn]

\* C10: over any sequence of sample and log_prob calls on distributions
\* sharing a flow, the flow goes from unbuilt to built at most once, every
\* build request after the first is a no-op, and a built flow never becomes
\* unbuilt.
C10_BuildMonotonic == []BuiltOnce /\ [][BuiltStaysBuilt]_vars

\* a log_prob call on a flow that an earlier sample call had built
C10_Witness ==
    /\ LogProbReturned
    /\ built[last.flow]
    /\ builtFrom[last.flow] = "x"

\* C11: a construction, whether it succeeds or fails, changes nothing but
\* the references it stores: every flow is built afterwards exactly when it
\* was before (and against the same input, the same number of times); on
\* success the accessors distribution and flow give the very objects
\* passed, on failure the distribution in hand is the one from before.
C11_ConstructionOnlyStores ==
    [][(last.op = "idle" /\ last'.op = "construct") =>
          /\ built' = built
          /\ builtFrom' = builtFrom
          /\ nBuilds' = nBuilds
          /\ IF last'.returned
             THEN /\ DistributionOf(distrib') = last'.dist
                  /\ FlowOf(distrib') = last'.flow
             ELSE distrib' = distrib]_vars

\* a FlowDistribution was constructed over a flow that is not built, and
\* holds the objects passed
C11_Witness ==
    /\ last.op = "construct"
    /\ last.returned
    /\ ~built[last.flow]
    /\ DistributionOf(distrib) = last.dist
    /\ FlowOf(distrib) = last.flow

\* FlowDistribution.value_ndims: the flow's output side
ValueNdims(fd) == Flow(FlowOf(fd)).y_value_ndims

\* FlowDistribution.is_continuous
IsContinuous(fd) == TRUE

\* test_property and test_sample_value_and_group_ndims expecting the base
\* distribution's value_ndims
TestValueNdimsCasesOfBase ==
    {[dist |-> "normal", flow |-> "quadratic1", value_ndims |-> 0,
      is_continuous |-> TRUE],
     [dist |-> "normal", flow |-> "quadratic0", value_ndims |-> 0,
      is_continuous |-> TRUE],
     [dist |-> "normal_norep", flow |-> "reshape", value_ndims |-> 0,
      is_continuous |-> TRUE]}

\* the value_ndims and is_continuous test_property and
\* test_sample_value_and_group_ndims assert
TestValueNdimsCases ==
    {[dist |-> "normal", flow |-> "quadratic1", value_ndims |-> 1,
      is_continuous |-> TRUE],
     [dist |-> "normal", flow |-> "quadratic0", value_ndims |-> 0,
      is_continuous |-> TRUE],
     [dist |-> "normal_norep", flow |-> "reshape", value_ndims |-> 2,
      is_continuous |-> TRUE]}

\* C12: the value_ndims a FlowDistribution reports is its flow's
\* y_value_ndims, whatever the base distribution's value_ndims is: 0 over a
\* value_ndims=0 flow, 1 over a value_ndims=1 flow, 2 over
\* ReshapeFlow(1, [-1, 1]) on a Normal of value_ndims 0; and it always
\* reports is_continuous True.
C12_ValueNdimsIsFlowOutput ==
    distrib # NoDistrib =>
        /\ ValueNdims(distrib) = Flow(distrib.flow).y_value_ndims
        /\ IsContinuous(distrib) = TRUE
        /\ \A c \in TestValueNdimsCases :
              (distrib.distribution = c.dist /\ distrib.flow = c.flow) =>
                  /\ ValueNdims(distrib) = c.value_ndims
                  /\ IsContinuous(distrib) = c.is_continuous

\* the reshape flow over the Normal: value_ndims 2 against the base's 0
C12_Witness ==
    /\ distrib = [distribution |-> "normal_norep", flow |-> "reshape"]
    /\ ValueNdims(distrib) = 2
    /\ Distribution(distrib.distribution).value_ndims = 0
    /\ Flow(distrib.flow).x_value_ndims = 1

\* a sample call of n >= 1 draws that got as far as the flow, on a base
\* distribution of batch shape (3,) under a shape-preserving flow, with
\* group_ndims within the dimensions the log-density has left
ShapeCase ==
    /\ last.op = "sample"
    /\ last.compute_density
    /\ last.why # "not_reparameterized"
    /\ last.n_samples >= 1
    /\ Distribution(last.dist).mean.shape = <<3>>
    /\ Flow(last.flow).x_value_ndims = Flow(last.flow).y_value_ndims
    /\ ValueNdims([distribution |-> last.dist, flow |-> last.flow])
           + last.group_ndims <= 2

\* C13: with a base batch shape (3,) and a shape-preserving flow,
\* sample(n_samples=n, group_ndims=g) gives a value of shape (n, 3) for
\* every g, and the log-density attached to it has that shape without its
\* trailing value_ndims + g dimensions: (n,) for value_ndims=0, g=1 and for
\* value_ndims=1, g=0, a scalar for value_ndims=1, g=1.
C13_SampleShapes ==
    ShapeCase =>
        /\ last.returned
        /\ last.y.shape = <<last.n_samples, 3>>
        /\ last.log_prob.shape =
               SubSeq(last.y.shape, 1,
                      2 - (ValueNdims([distribution |-> last.dist,
                                       flow |-> last.flow])
                           + last.group_ndims))

\* C14: Normal(mean=..., std=..., is_reparameterized=False), the call of
\* test_property and of gmvae_q_net, constructs a distribution: the
\* constructor accepts the keyword.
C14_NormalAcceptsReparameterizedKeyword ==
    (last.op = "normal_init" /\ "is_reparameterized" \in last.kwargs) =>
        /\ last.outcome = "ok"
        /\ last.returned

\* a sample call that got as far as drawing x
SampleDrew ==
    /\ last.op = "sample"
    /\ last.compute_density
    /\ last.why # "not_reparameterized"

\* what a step does to the build state of flow fn
FirstUseBuilds(fn) ==
    /\ (~built[fn] /\ built'[fn]) =>
           /\ last'.flow = fn
           /\ builtFrom'[fn] = CASE last'.op = "sample" -> "x"
                                 [] last'.op = "log_prob" -> "y"
                                 [] OTHER -> "external"
    /\ built[fn] =>
           /\ builtFrom'[fn] = builtFrom[fn]
           /\ nBuilds'[fn] = nBuilds[fn]

\* C15: a flow is built by whichever call uses it first, against that
\* call's input: x when a sample call comes first, y when a log_prob call
\* comes first; after either call the flow is built, and a later call of
\* the other kind finds it built and leaves the build as it was.
C15_BuiltByFirstUse ==
    /\ [](SampleDrew \/ last.op = "log_prob" => built[last.flow])
    /\ [][\A fn \in RealFlows : FirstUseBuilds(fn)]_vars

\* a sample call on a flow that an earlier log_prob call had built
\* against y
C15_Witness ==
    /\ SampleReturned
    /\ built[last.flow]
    /\ builtFrom[last.flow] = "y"

\* the checks of a construction in the order the claim gives them, each
\* with whether the arguments violate it
CheckOrder == <<"not_flow", "not_continuous", "not_float", "value_ndims">>

Violates(d, f) ==
    <<~f.is_flow, ~d.is_continuous, ~d.is_float,
      d.value_ndims > f.x_value_ndims>>

\* C16: a construction reports the first violated check in the order flow
\* type (TypeError), continuity, dtype, value_ndims (ValueError each), and
\* succeeds when none is violated; a Categorical, neither continuous nor
\* float, is reported as not continuous.
C16_FirstViolatedCheckReported ==
    last.op = "construct" =>
        LET v == Violates(Distribution(last.dist), Flow(last.flow))
            hit == {i \in 1..4 : v[i]}
        IN  IF hit = {} THEN last.outcome = "ok" /\ last.returned
            ELSE LET first == CHOOSE i \in hit : \A j \in hit : i <= j
                 IN  /\ last.why = CheckOrder[first]
                     /\ last.outcome = IF first = 1 THEN "TypeError"
                                       ELSE "ValueError"
                     /\ ~last.returned

\* a construction that violates two checks and reports the earlier one:
\* the Categorical over a real flow
C16_Witness ==
    /\ last.op = "construct"
    /\ last.dist = "categorical"
    /\ Flow(last.flow).is_flow
    /\ ~Distribution(last.dist).is_float
    /\ last.why = "not_continuous"

\* ------------------------------------------- examples/nn: residual blocks

\* most channels of an input and of output_dims
MaxChannels == 3

\* largest height and width of an input
MaxSize == 3

\* largest stride
MaxStride == 2

\* a batch of images by what the blocks change of it: channel count and
\* spatial size
Image(c, h, w) == [channels |-> c, height |-> h, width |-> w]

Images ==
    {Image(c, h, w) : c \in 1..MaxChannels, h \in 1..MaxSize, w \in 1..MaxSize}

\* the strides argument: an integer s, written <<s>>, or a pair
StridesArgs ==
    {<<s>> : s \in 1..MaxStride} \cup ((1..MaxStride) \X (1..MaxStride))

\* validate_strides_or_kernel_size: an integer s stands for (s, s)
ValidateStridesOrKernelSize(arg) ==
    IF Len(arg) = 1 THEN <<arg[1], arg[1]>> ELSE arg

CeilDiv(a, b) == (a + b - 1) \div b

\* conv_fn(x, shape, strides=strides) with padding='same': conv2d divides
\* the spatial size by the strides, rounding up, deconv2d multiplies it
ConvFn(deconv, x, shape, strides) ==
    IF deconv
    THEN Image(shape, x.height * strides[1], x.width * strides[2])
    ELSE Image(shape, CeilDiv(x.height, strides[1]),
               CeilDiv(x.width, strides[2]))

\* the shortcut path
Shortcut(deconv, inputs, output_shape, strides) ==
    IF strides # <<1, 1>> THEN ConvFn(deconv, inputs, output_shape, strides)
    ELSE inputs

\* the two convolutions with the resizing one first whatever resize_last is
ResidualConvsResizeFirst(input_shape, output_shape, strides, resize_last) ==
    <<[shape |-> output_shape, strides |-> strides],
      [shape |-> output_shape, strides |-> <<1, 1>>]>>

\* conv1 and conv2 of the residual path, each by its output channels and
\* strides: keep_conv(input_shape), resize_conv(output_shape) when
\* resize_last, resize_conv(output_shape), keep_conv(output_shape) otherwise
ResidualConvs(input_shape, output_shape, strides, resize_last) ==
    IF resize_last
    THEN <<[shape |-> input_shape, strides |-> <<1, 1>>],
           [shape |-> output_shape, strides |-> strides]>>
    ELSE <<[shape |-> output_shape, strides |-> strides],
           [shape |-> output_shape, strides |-> <<1, 1>>]>>

\* one step of the residual path: a convolution, or a normalizer,
\* activation or dropout, which keep the shape
Step(name, conv, shape, strides, out) ==
    [name |-> name, conv |-> conv, shape |-> shape, strides |-> strides,
     out |-> out]

Keeps(name, x) == Step(name, FALSE, x.channels, <<1, 1>>, x)

\* the residual path, step by step
ResidualPath(deconv, inputs, input_shape, output_shape, strides, resize_last) ==
    LET convs == ResidualConvs(input_shape, output_shape, strides, resize_last)
        c1 == ConvFn(deconv, inputs, convs[1].shape, convs[1].strides)
        c2 == ConvFn(deconv, c1, convs[2].shape, convs[2].strides)
    IN  <<Keeps("norm1", inputs),
          Keeps("nonlinear1", inputs),
          Step("conv1", TRUE, convs[1].shape, convs[1].strides, c1),
          Keeps("dropout1", c1),
          Keeps("norm2", c1),
          Keeps("nonlinear2", c1),
          Step("conv2", TRUE, convs[2].shape, convs[2].strides, c2)>>

ImageShape(x) == <<x.channels, x.height, x.width>>

\* _resnet_block: shortcut + residual, an elementwise sum that broadcasts
\* dimensions of size 1 and fails on any other mismatch
ResnetBlockImpl(fn, deconv, inputs, output_dims, strides_arg, resize_last) ==
    LET strides == ValidateStridesOrKernelSize(strides_arg)
        input_shape == inputs.channels
        output_shape == output_dims
        shortcut == Shortcut(deconv, inputs, output_shape, strides)
        steps == ResidualPath(deconv, inputs, input_shape, output_shape,
                              strides, resize_last)
        residual == steps[Len(steps)].out
        ok == BroadcastOk(ImageShape(shortcut), ImageShape(residual))
        sum == BroadcastShape(ImageShape(shortcut), ImageShape(residual))
    IN  [fn |-> fn, inputs |-> inputs, output_dims |-> output_dims,
         strides |-> strides, steps |-> steps, shortcut |-> shortcut,
         residual |-> residual,
         outcome |-> IF ok THEN "ok" ELSE "ValueError",
         output |-> IF ok THEN Image(sum[1], sum[2], sum[3]) ELSE inputs]

\* resnet_block(inputs, output_dims, strides=strides)
ResnetBlock ==
    \E inputs \in Images, output_dims \in 1..MaxChannels,
       strides_arg \in StridesArgs :
        /\ net = NoNet
        /\ net' = ResnetBlockImpl("resnet_block", FALSE, inputs, output_dims,
                                  strides_arg, TRUE)
        /\ UNCHANGED <<distrib, built, builtFrom, nBuilds, last, data>>

\* deconv_resnet_block(inputs, output_dims, strides=strides)
DeconvResnetBlock ==
    \E inputs \in Images, output_dims \in 1..MaxChannels,
       strides_arg \in StridesArgs :
        /\ net = NoNet
        /\ net' = ResnetBlockImpl("deconv_resnet_block", TRUE, inputs,
                                  output_dims, strides_arg, FALSE)
        /\ UNCHANGED <<distrib, built, builtFrom, nBuilds, last, data>>

\* the block's output goes on to the next layer
NextLayer ==
    /\ net # NoNet
    /\ net' = NoNet
    /\ UNCHANGED <<distrib, built, builtFrom, nBuilds, last, data>>

NextNet == ResnetBlock \/ DeconvResnetBlock \/ NextLayer

SpecNet == Init /\ [][NextNet]_vars

\* C17: in every call of resnet_block and deconv_resnet_block the shortcut
\* and the residual branch have the same channel count and the same
\* spatial size where they are added, the sum succeeds, and the result has
\* output_dims channels, whatever the input channels, output_dims and
\* strides are.
C17_BranchesAgreeAtMerge ==
    net # NoNet =>
        /\ net.shortcut.channels = net.residual.channels
        /\ net.shortcut.height = net.residual.height
        /\ net.shortcut.width = net.residual.width
        /\ net.outcome = "ok"
        /\ net.output.channels = net.output_dims

\* the names of the residual path's steps in order
StepNames(steps) == [i \in 1..Len(steps) |-> steps[i].name]

\* the convolutions among the steps
ConvSteps(steps) == SelectSeq(steps, LAMBDA st : st.conv)

\* C18: the residual path runs norm1, nonlinear1, conv1, dropout1, norm2,
\* nonlinear2, conv2 in this order, and only one of its two convolutions
\* carries the block's strides and maps to output_dims from another channel
\* count: in resnet_block conv1 keeps the input channels at stride (1, 1)
\* and conv2 maps to output_dims with the strides; in deconv_resnet_block
\* conv1 maps to output_dims with the strides and conv2 keeps output_dims
\* at stride (1, 1).
C18_ResidualPathOrder ==
    net # NoNet =>
        LET convs == ConvSteps(net.steps) IN
        /\ StepNames(net.steps) =
               <<"norm1", "nonlinear1", "conv1", "dropout1", "norm2",
                 "nonlinear2", "conv2">>
        /\ StepNames(convs) = <<"conv1", "conv2">>
        /\ IF net.fn = "resnet_block"
           THEN /\ convs[1].shape = net.inputs.channels
                /\ convs[1].strides = <<1, 1>>
                /\ convs[1].out = net.inputs
                /\ convs[2].shape = net.output_dims
                /\ convs[2].strides = net.strides
           ELSE /\ convs[1].shape = net.output_dims
                /\ convs[1].strides = net.strides
                /\ convs[2].shape = net.output_dims
                /\ convs[2].strides = <<1, 1>>
                /\ convs[2].out = convs[1].out
        /\ net.residual = convs[2].out
        /\ net.residual.channels = net.output_dims

\* a resnet_block that changes both the channel count and the spatial
\* size, all of it in conv2
C18_Witness ==
    /\ net # NoNet
    /\ net.fn = "resnet_block"
    /\ net.inputs.channels # net.output_dims
    /\ net.strides = <<2, 2>>
    /\ net.steps[3].out = net.inputs
    /\ net.steps[7].out # net.inputs

\* -------------------------------- examples/auto_encoders: the data of main

\* the row count main() asks make_data for, and the ends of its training
\* and validation slices
MainRows == 130000

TrainEnd == 70000

ValidEnd == 100000

\* largest n_samples of a make_data call other than main's
MaxDataSamples == 100

\* largest rotation the shuffle applies
MaxShift == 3

\* make_data returning the first mixture component only
MakeDataOneComponent(n_samples) == [components |-> <<n_samples>>]

\* make_data(n_samples): np.r_ of n_samples rows drawn from each of the two
\* mixture components, by the row count of each part
MakeData(n_samples) == [components |-> <<n_samples, n_samples>>]

\* len(X)
Rows(X) == SumSeq(X.components)

Min2(a, b) == IF a < b THEN a ELSE b

\* x[lo:hi] on an array of n rows: the positions lo .. hi - 1, both ends
\* clipped to n
Slice(lo, hi, n) == [lo |-> Min2(lo, n), hi |-> Max2(Min2(hi, n), Min2(lo, n))]

SliceLen(s) == s.hi - s.lo

\* x_data[:70000], x_data[70000: 100000], x_data[100000:]
Split(n) ==
    [train |-> Slice(0, TrainEnd, n),
     valid |-> Slice(TrainEnd, ValidEnd, n),
     test |-> Slice(ValidEnd, n, n)]

\* np.random.shuffle permutes the rows in place; the permutations drawn
\* here are the rotations by shift, read forwards or backwards: the
\* position that row r of make_data's result ends up at
PositionOf(r, shift, reversed, n) ==
    LET p == (r + shift) % n IN IF reversed THEN n - 1 - p ELSE p

\* a call of make_data from elsewhere
MakeDataCall ==
    \E n_samples \in 1..MaxDataSamples :
        /\ data = NoData
        /\ data' = [pc |-> "returned", n_samples |-> n_samples,
                    rows |-> Rows(MakeData(n_samples))]
        /\ UNCHANGED <<distrib, built, builtFrom, nBuilds, last, net>>

\* main: x_data = make_data(130000 // 2)
MainMakeData ==
    /\ data = NoData
    /\ data' = [pc |-> "made", n_samples |-> MainRows \div 2,
                rows |-> Rows(MakeData(MainRows \div 2))]
    /\ UNCHANGED <<distrib, built, builtFrom, nBuilds, last, net>>

\* main: np.random.shuffle(x_data)
MainShuffle ==
    \E shift \in 0..MaxShift, reversed \in BOOLEAN :
        /\ data.pc = "made"
        /\ data' = [pc |-> "shuffled", n_samples |-> data.n_samples,
                    rows |-> data.rows, shift |-> shift,
                    reversed |-> reversed]
        /\ UNCHANGED <<distrib, built, builtFrom, nBuilds, last, net>>

\* main: x_train, x_valid, x_test = ...
MainSplit ==
    /\ data.pc = "shuffled"
    /\ data' = [pc |-> "split", n_samples |-> data.n_samples,
                rows |-> data.rows, shift |-> data.shift,
                reversed |-> data.reversed, slices |-> Split(data.rows)]
    /\ UNCHANGED <<distrib, built, builtFrom, nBuilds, last, net>>

\* the data goes on to the experiments, or the caller of make_data is
\* done with it
DataUsed ==
    /\ data.pc \in {"returned", "split"}
    /\ data' = NoData
    /\ UNCHANGED <<distrib, built, builtFrom, nBuilds, last, net>>

NextData ==
    \/ MakeDataCall
    \/ MainMakeData
    \/ MainShuffle
    \/ MainSplit
    \/ DataUsed

SpecData == Init /\ [][NextData]_vars

\* the slices that hold row r after the shuffle
SlicesHolding(r) ==
    LET p == PositionOf(r, data.shift, data.reversed, data.rows)
    IN  {s \in {"train", "valid", "test"} :
            data.slices[s].lo <= p /\ p < data.slices[s].hi}

\* C19: make_data(n) returns 2n rows, and main's slices of the shuffled
\* 130000 rows, [0, 70000), [70000, 100000) and [100000, end), are a
\* partition of them: of 70000, 30000 and 30000 rows, none empty, no
\* position in two of them, and every row of the data in exactly one.
C19_SplitIsPartition ==
    /\ data # NoData => data.rows = 2 * data.n_samples
    /\ data.pc = "split" =>
        LET s == data.slices IN
        /\ data.rows = 130000
        /\ <<s.train.lo, s.train.hi>> = <<0, 70000>>
        /\ <<s.valid.lo, s.valid.hi>> = <<70000, 100000>>
        /\ <<s.test.lo, s.test.hi>> = <<100000, data.rows>>
        /\ <<SliceLen(s.train), SliceLen(s.valid), SliceLen(s.test)>> =
               <<70000, 30000, 30000>>
        /\ \A r \in 0..(data.rows - 1) : Cardinality(SlicesHolding(r)) = 1

\* main has split its shuffled data
C19_Witness ==
    /\ data.pc = "split"
    /\ data.shift > 0
    /\ data.reversed
    /\ SliceLen(data.slices.test) = 30000

====
